---- MODULE Spec2Model ----
(***************************************************************************)
(* Model of the two codecs of server/engine:                               *)
(*   - lossless.py : greedy pattern-substitution codec                     *)
(*                   (lossless_encode / lossless_decode)                   *)
(*   - __init__.py : Huffman coder (huffman_encode / huffman_decode)       *)
(* A text is a sequence of characters; a character is a one-symbol string  *)
(* ("a", "0", ...) and the control characters U+0002, U+0003 and the line  *)
(* feed are written "STX", "ETX" and "LF".                                 *)
(***************************************************************************)
EXTENDS Integers, Sequences, FiniteSets, TLC

VARIABLES
    \* ---- lossless codec (lossless.py) ----
    text,            \* the input of lossless_encode
    pc,              \* position in lossless_encode / _decode_body
    body,            \* local `body` of lossless_encode
    found,           \* history: what _find_patterns returned
    pruned,          \* history: what _remove_subsumed returned
    candidates,      \* local `candidates` (list of (pattern, count))
    n,               \* loop index of the substitution loop
    decode_table,    \* local `decode_table`: key -> pattern
    file,            \* the returned LosslessFile (sizes, count, ratio)
    dbody,           \* local `body` of _decode_body
    sorted_keys,     \* keys of _decode_body's loop still to be replayed
    replayed,        \* keys already replayed by _decode_body, in order
    written,         \* history: key -> number of placeholders its turn wrote
    \* ---- Huffman coder (__init__.py) ----
    htext,           \* the input of huffman_encode
    hpc,             \* position in huffman_encode / huffman_decode
    heap,            \* the heap of _build_tree
    result,          \* the returned HuffmanResult
    dec_bits,        \* argument encoded_bits of huffman_decode
    dec_table,       \* argument code_table of huffman_decode
    pos,             \* number of bits huffman_decode has scanned
    buffer,          \* local `buffer` of huffman_decode
    decoded_chars,   \* local `decoded_chars` of huffman_decode
    outcome          \* what huffman_decode returned

lvars == <<text, pc, body, found, pruned, candidates, n, decode_table, file,
           dbody, sorted_keys, replayed, written>>
hvars == <<htext, hpc, heap, result, dec_bits, dec_table, pos, buffer,
           decoded_chars, outcome>>
vars == <<lvars, hvars>>

----------------------------------------------------------------------------
\* Bounds of the model

MaxChunks == 4       \* an input of the lossless codec has at most this many chunks
MaxBlocks == 4       \* a whole-line input of the lossless codec has at most this many blocks
MaxLen == 5          \* an input of the Huffman coder has at most this many characters
MaxBits == 2         \* a foreign bit sequence handed to huffman_decode

----------------------------------------------------------------------------
\* Codec constants (lossless.py)

STX == "STX"
ETX == "ETX"
LF == "LF"
ESCAPE == <<STX, "e", STX>>

MIN_PATTERN_LEN == 20
MIN_OCCURRENCES == 2
MAX_PATTERNS == 9999

placeholder_len == 1 + 4 + 1

----------------------------------------------------------------------------
\* String primitives of Python used by the codec

\* a in b
Contains(a, b) ==
    \E i \in 1..(Len(b) - Len(a) + 1) : SubSeq(b, i, i + Len(a) - 1) = a

\* s.find(p, i): the least position >= i where p occurs in s, 0 if none
Find(s, p, i) ==
    LET At(j) == s[j] = p[1] /\ SubSeq(s, j, j + Len(p) - 1) = p
        last == Len(s) - Len(p) + 1
    IN  IF \E j \in i..last : At(j)
        THEN CHOOSE j \in i..last : At(j) /\ \A k \in i..(j - 1) : ~At(k)
        ELSE 0

RECURSIVE Scan(_, _, _, _, _)
\* The leftmost-first scan shared by s.count(p) and s.replace(p, new), over
\* the match positions lo..hi: `out` is the rewritten text of s from lo up to
\* `next`, the first position the scan has not consumed, and `cnt` the
\* number of non-overlapping occurrences met.  The range is halved so that
\* the evaluation stays shallow on long texts.
Scan(s, p, new, lo, hi) ==
    IF lo > hi THEN [out |-> <<>>, next |-> lo, cnt |-> 0]
    ELSE IF lo = hi
         THEN IF s[lo] = p[1] /\ SubSeq(s, lo, lo + Len(p) - 1) = p
              THEN [out |-> new, next |-> lo + Len(p), cnt |-> 1]
              ELSE [out |-> <<s[lo]>>, next |-> lo + 1, cnt |-> 0]
         ELSE LET l == Scan(s, p, new, lo, (lo + hi) \div 2)
                  r == Scan(s, p, new, l.next, hi)
              IN  [out |-> l.out \o r.out, next |-> r.next, cnt |-> l.cnt + r.cnt]

\* s.count(p): the number of non-overlapping occurrences, leftmost first
StrCount(s, p) == Scan(s, p, <<>>, 1, Len(s) - Len(p) + 1).cnt

\* s.replace(old, new): every non-overlapping occurrence, leftmost first
StrReplace(s, old, new) ==
    LET r == Scan(s, old, new, 1, Len(s) - Len(old) + 1)
    IN  r.out \o SubSeq(s, r.next, Len(s))

RECURSIVE Join(_)
Join(ss) == IF ss = <<>> THEN <<>> ELSE Head(ss) \o Join(Tail(ss))

RECURSIVE SplitFrom(_, _)
SplitFrom(s, start) ==
    LET j == Find(s, <<LF>>, start)
    IN  IF j = 0
        THEN IF start > Len(s) THEN <<>> ELSE <<SubSeq(s, start, Len(s))>>
        ELSE <<SubSeq(s, start, j)>> \o SplitFrom(s, j + 1)

\* s.splitlines(keepends=True); LF is the only line boundary of the alphabet
Splitlines(s) == SplitFrom(s, 1)

\* len(s.encode("utf-8")); every character of the alphabet is ASCII
Utf8Len(s) == Len(s)

Digit(d) == CASE d = 0 -> "0" [] d = 1 -> "1" [] d = 2 -> "2" [] d = 3 -> "3"
              [] d = 4 -> "4" [] d = 5 -> "5" [] d = 6 -> "6" [] d = 7 -> "7"
              [] d = 8 -> "8" [] d = 9 -> "9"

DigitChars == {"0", "1", "2", "3", "4", "5", "6", "7", "8", "9"}

DigitVal(c) == CHOOSE d \in 0..9 : Digit(d) = c

RECURSIVE Decimal(_)
Decimal(k) == IF k < 10 THEN <<Digit(k)>>
              ELSE Decimal(k \div 10) \o <<Digit(k % 10)>>

RECURSIVE ZeroPad(_, _)
ZeroPad(s, width) == IF Len(s) >= width THEN s ELSE ZeroPad(<<"0">> \o s, width)

\* Fmt04 without the zero padding: f"{k}"
FmtUnpadded(k) == Decimal(k)

\* f"{k:04d}"
Fmt04(k) == ZeroPad(Decimal(k), 4)

RECURSIVE ParseInt(_)
\* int(key) of a string of decimal digits
ParseInt(s) == IF s = <<>> THEN 0
               ELSE 10 * ParseInt(SubSeq(s, 1, Len(s) - 1)) + DigitVal(s[Len(s)])

\* f"{_STX}{key}{_ETX}"
Placeholder(key) == <<STX>> \o key \o <<ETX>>

----------------------------------------------------------------------------
\* Pattern finder (lossless.py)

\* sorted(..., reverse=True) is stable: items of equal key keep their order.
\* Items are records [key |-> Int, item |-> ...].
RECURSIVE InsertDesc(_, _)
InsertDesc(sorted, x) ==
    IF sorted = <<>> THEN <<x>>
    ELSE IF Head(sorted).key >= x.key
         THEN <<Head(sorted)>> \o InsertDesc(Tail(sorted), x)
         ELSE <<x>> \o sorted

RECURSIVE StableSortDesc(_)
StableSortDesc(ps) ==
    IF ps = <<>> THEN <<>>
    ELSE InsertDesc(StableSortDesc(SubSeq(ps, 1, Len(ps) - 1)), ps[Len(ps)])

Max(a, b) == IF a >= b THEN a ELSE b

\* BlocksOf with range(n - window): the last window is left out
BlocksOfShort(lines, window) ==
    [i \in 1..(Len(lines) - window) |-> Join(SubSeq(lines, i, i + window - 1))]

\* the blocks "".join(lines[i : i + window]) for i in range(n - window + 1)
BlocksOf(lines, window) ==
    [i \in 1..(Len(lines) - window + 1) |-> Join(SubSeq(lines, i, i + window - 1))]

\* counts[block] += 1 on a Counter kept in first-insertion order
Bump(counts, block) ==
    IF \E k \in 1..Len(counts) : counts[k].pat = block
    THEN [k \in 1..Len(counts) |->
            IF counts[k].pat = block
            THEN [pat |-> block, cnt |-> counts[k].cnt + 1]
            ELSE counts[k]]
    ELSE Append(counts, [pat |-> block, cnt |-> 1])

RECURSIVE Tally(_, _)
Tally(blocks, counts) ==
    IF blocks = <<>> THEN counts
    ELSE Tally(Tail(blocks),
               IF Len(Head(blocks)) >= MIN_PATTERN_LEN
               THEN Bump(counts, Head(blocks))
               ELSE counts)

\* _savings ranking by the occurrence count alone, the length left out
SavingsCountOnly(item) == item.cnt - 1

\* _savings
Savings(item) == (item.cnt - 1) * Max(0, Len(item.pat) - placeholder_len)

\* IsCandidate without the occurrence threshold
IsCandidateAnyCount(item) == Len(item.pat) >= MIN_PATTERN_LEN

IsCandidate(item) == item.cnt >= MIN_OCCURRENCES /\ Len(item.pat) >= MIN_PATTERN_LEN

\* _find_patterns
FindPatterns(t) ==
    LET lines == Splitlines(t)
        counts == Tally(BlocksOf(lines, 1) \o BlocksOf(lines, 2) \o BlocksOf(lines, 3),
                        <<>>)
        kept == SelectSeq(counts, IsCandidate)
        keyed == [k \in 1..Len(kept) |-> [key |-> Savings(kept[k]), item |-> kept[k]]]
        sorted == StableSortDesc(keyed)
        ranked == [k \in 1..Len(sorted) |-> sorted[k].item]
    IN  SubSeq(ranked, 1, IF Len(ranked) < MAX_PATTERNS THEN Len(ranked) ELSE MAX_PATTERNS)

\* Subsumed looking at every other pattern, not only the earlier ones
SubsumedByAny(patterns, i) ==
    \E j \in (1..Len(patterns)) \ {i} : Contains(patterns[i].pat, patterns[j].pat)

\* the test of _remove_subsumed: pattern i lies inside an earlier pattern
Subsumed(patterns, i) ==
    \E j \in 1..(i - 1) : Contains(patterns[i].pat, patterns[j].pat)

RECURSIVE KeepFrom(_, _)
KeepFrom(patterns, i) ==
    IF i > Len(patterns) THEN <<>>
    ELSE (IF Subsumed(patterns, i) THEN <<>> ELSE <<patterns[i]>>)
         \o KeepFrom(patterns, i + 1)

\* _remove_subsumed
RemoveSubsumed(patterns) == KeepFrom(patterns, 1)

\* SortByLength without reverse=True: shortest pattern first
SortByLengthAscending(cands) ==
    LET keyed == [k \in 1..Len(cands) |-> [key |-> 0 - Len(cands[k].pat), item |-> cands[k]]]
        sorted == StableSortDesc(keyed)
    IN  [k \in 1..Len(sorted) |-> sorted[k].item]

\* candidates.sort(key=lambda x: len(x[0]), reverse=True)
SortByLength(cands) ==
    LET keyed == [k \in 1..Len(cands) |-> [key |-> Len(cands[k].pat), item |-> cands[k]]]
        sorted == StableSortDesc(keyed)
    IN  [k \in 1..Len(sorted) |-> sorted[k].item]

----------------------------------------------------------------------------
\* lossless_encode, one action per step

NoFile == [original_size |-> 0, encoded_size |-> 0, patterns_count |-> 0,
           ratio |-> <<1, 1>>]

\* EscapeStep with the marker cut short to U+0002 'e'
EscapeStepShort(t) == StrReplace(t, <<STX>>, <<STX, "e">>)

\* Step 0: body = text.replace(_STX, _ESCAPE)
EscapeStep(t) == StrReplace(t, <<STX>>, ESCAPE)

EncodeEscape ==
    /\ pc = "start"
    /\ body' = EscapeStep(text)
    /\ file' = [file EXCEPT !.original_size = Utf8Len(text)]
    /\ pc' = "escaped"
    /\ UNCHANGED <<text, found, pruned, candidates, n, decode_table, dbody,
                   sorted_keys, replayed, written>>

\* Steps 1 and 2: find, prune and order the candidates
EncodeFind ==
    /\ pc = "escaped"
    /\ found' = FindPatterns(body)
    /\ pruned' = RemoveSubsumed(found')
    /\ candidates' = SortByLength(pruned')
    /\ n' = 0
    /\ decode_table' = <<>>
    /\ written' = <<>>
    /\ pc' = "loop"
    /\ UNCHANGED <<text, body, file, dbody, sorted_keys, replayed>>

\* the pattern of the current turn
Pattern == candidates[n + 1].pat

InLoop == pc = "loop" /\ n < Len(candidates) /\ n < MAX_PATTERNS

\* SkipTurn with `<=` for `<` in the occurrence test
SkipTurnOffByOne(b, pattern) ==
    \/ StrCount(b, pattern) <= MIN_OCCURRENCES
    \/ Len(pattern) <= placeholder_len

\* SkipTurn that lets a single remaining occurrence through
SkipTurnOnlyAbsent(b, pattern) ==
    \/ StrCount(b, pattern) < 1
    \/ Len(pattern) <= placeholder_len

\* the two `continue` branches of the loop
SkipTurn(b, pattern) ==
    \/ StrCount(b, pattern) < MIN_OCCURRENCES
    \/ Len(pattern) <= placeholder_len

LoopSkip ==
    /\ InLoop
    /\ SkipTurn(body, Pattern)
    /\ n' = n + 1
    /\ UNCHANGED <<text, found, pruned, pc, body, candidates, decode_table,
                   file, dbody, sorted_keys, replayed, written>>

LoopSubstitute ==
    /\ InLoop
    /\ ~SkipTurn(body, Pattern)
    /\ decode_table' = (Fmt04(n) :> Pattern) @@ decode_table
    /\ written' = (Fmt04(n) :> StrCount(body, Pattern)) @@ written
    /\ body' = StrReplace(body, Pattern, Placeholder(Fmt04(n)))
    /\ n' = n + 1
    /\ UNCHANGED <<text, found, pruned, pc, candidates, file, dbody,
                   sorted_keys, replayed>>

\* ratio = original_size / encoded_size if encoded_size > 0 else 1.0,
\* kept as the pair <<numerator, denominator>>
Ratio(original, encoded) == IF encoded > 0 THEN <<original, encoded>> ELSE <<1, 1>>

\* the loop is over (exhausted, or `break`): build the LosslessFile
EncodeReturn ==
    /\ pc = "loop"
    /\ ~InLoop
    /\ file' = [original_size |-> file.original_size,
                encoded_size |-> Utf8Len(body),
                patterns_count |-> Cardinality(DOMAIN decode_table),
                ratio |-> Ratio(file.original_size, Utf8Len(body))]
    /\ pc' = "encoded"
    /\ UNCHANGED <<text, found, pruned, body, candidates, n, decode_table,
                   dbody, sorted_keys, replayed, written>>

----------------------------------------------------------------------------
\* lossless_decode / _decode_body, one action per step

RECURSIVE SortKeysAsc(_)
\* SortKeysDesc without reverse=True
SortKeysAsc(keys) ==
    IF keys = {} THEN <<>>
    ELSE LET k == CHOOSE x \in keys : \A y \in keys : ParseInt(x) <= ParseInt(y)
         IN  <<k>> \o SortKeysAsc(keys \ {k})

RECURSIVE SortKeysDesc(_)
\* sorted(decode_table.keys(), key=lambda k: int(k), reverse=True)
SortKeysDesc(keys) ==
    IF keys = {} THEN <<>>
    ELSE LET k == CHOOSE x \in keys : \A y \in keys : ParseInt(x) >= ParseInt(y)
         IN  <<k>> \o SortKeysDesc(keys \ {k})

DecodeStart ==
    /\ pc = "encoded"
    /\ dbody' = body
    /\ sorted_keys' = SortKeysDesc(DOMAIN decode_table)
    /\ replayed' = <<>>
    /\ pc' = "decoding"
    /\ UNCHANGED <<text, found, pruned, body, candidates, n, decode_table,
                   file, written>>

\* one turn of `for key in sorted_keys`
DecodeReplay ==
    /\ pc = "decoding"
    /\ sorted_keys /= <<>>
    /\ LET key == Head(sorted_keys)
       IN  /\ dbody' = StrReplace(dbody, Placeholder(key), decode_table[key])
           /\ replayed' = Append(replayed, key)
    /\ sorted_keys' = Tail(sorted_keys)
    /\ UNCHANGED <<text, found, pruned, pc, body, candidates, n, decode_table,
                   file, written>>

\* body.replace(_ESCAPE, _STX)
UnescapeStep(b) == StrReplace(b, ESCAPE, <<STX>>)

\* body = body.replace(_ESCAPE, _STX); return body
DecodeUnescape ==
    /\ pc = "decoding"
    /\ sorted_keys = <<>>
    /\ dbody' = UnescapeStep(dbody)
    /\ pc' = "done"
    /\ UNCHANGED <<text, found, pruned, body, candidates, n, decode_table,
                   file, sorted_keys, replayed, written>>

----------------------------------------------------------------------------
\* Inputs of the lossless codec: up to MaxChunks chunks, each a 20-character
\* line, a short line, a control character, the letter of the escape
\* sequence or four digits closed by the end control character

LineOf(c) == [i \in 1..MIN_PATTERN_LEN |-> IF i = MIN_PATTERN_LEN THEN LF ELSE c]

Chunks == {LineOf("a"), LineOf("b"), <<"c", LF>>, <<STX>>, <<ETX>>, <<"e">>,
           <<"0", "0", "0", "0", ETX>>}

Texts == UNION {{Join(cs) : cs \in [1..k -> Chunks]} : k \in 0..MaxChunks}

HIdle ==
    /\ htext = <<>>
    /\ hpc = "idle"
    /\ heap = {}
    /\ result = <<>>
    /\ dec_bits = <<>>
    /\ dec_table = <<>>
    /\ pos = 0
    /\ buffer = <<>>
    /\ decoded_chars = <<>>
    /\ outcome = <<>>

Init ==
    /\ text \in Texts
    /\ pc = "start"
    /\ body = <<>>
    /\ found = <<>>
    /\ pruned = <<>>
    /\ candidates = <<>>
    /\ n = 0
    /\ decode_table = <<>>
    /\ file = NoFile
    /\ dbody = <<>>
    /\ sorted_keys = <<>>
    /\ replayed = <<>>
    /\ written = <<>>
    /\ HIdle

----------------------------------------------------------------------------
\* Huffman coder (__init__.py)

None == "None"

\* _HuffmanNode(f, ch)
Leaf(f, ch) == [freq |-> f, char |-> ch, left |-> None, right |-> None]

\* _HuffmanNode(freq=left.freq + right.freq, left=left, right=right)
Merged(l, r) == [freq |-> l.freq + r.freq, char |-> None, left |-> l, right |-> r]

Range(s) == {s[i] : i \in 1..Len(s)}

\* Counter(text)
Counter(t) == [ch \in Range(t) |-> Cardinality({i \in 1..Len(t) : t[i] = ch})]

\* IsMin with the order turned round: the heaviest node is popped
IsMax(node, h) == node \in h /\ \A other \in h : node.freq >= other.freq

\* a node heappop may return: nodes compare by freq alone, so any node of
\* least freq is a possible minimum
IsMin(node, h) == node \in h /\ \A other \in h : node.freq <= other.freq

RECURSIVE BuildCodesNoRightBit(_, _)
\* BuildCodes descending right without appending "1"
BuildCodesNoRightBit(node, prefix) ==
    IF node.char /= None
    THEN (node.char :> (IF prefix = <<>> THEN <<"0">> ELSE prefix))
    ELSE BuildCodesNoRightBit(node.left, Append(prefix, "0"))
         @@ BuildCodesNoRightBit(node.right, prefix)

RECURSIVE BuildCodesEmptyRoot(_, _)
\* BuildCodes without the `or "0"` of the single-node tree
BuildCodesEmptyRoot(node, prefix) ==
    IF node.char /= None
    THEN (node.char :> prefix)
    ELSE BuildCodesEmptyRoot(node.left, Append(prefix, "0"))
         @@ BuildCodesEmptyRoot(node.right, Append(prefix, "1"))

RECURSIVE BuildCodesInnerNodes(_, _)
\* BuildCodes without the leaf test: inner nodes get an entry as well
BuildCodesInnerNodes(node, prefix) ==
    IF node.char /= None
    THEN (node.char :> (IF prefix = <<>> THEN <<"0">> ELSE prefix))
    ELSE (node.char :> (IF prefix = <<>> THEN <<"0">> ELSE prefix))
         @@ BuildCodesInnerNodes(node.left, Append(prefix, "0"))
         @@ BuildCodesInnerNodes(node.right, Append(prefix, "1"))

RECURSIVE BuildCodes(_, _)
\* _build_codes: the table of the subtree `node` reached by `prefix`
BuildCodes(node, prefix) ==
    IF node.char /= None
    THEN (node.char :> (IF prefix = <<>> THEN <<"0">> ELSE prefix))
    ELSE BuildCodes(node.left, Append(prefix, "0"))
         @@ BuildCodes(node.right, Append(prefix, "1"))

RECURSIVE EncodeBitsReversed(_, _)
\* EncodeBits with the codewords joined back to front
EncodeBitsReversed(t, table) ==
    IF t = <<>> THEN <<>> ELSE EncodeBitsReversed(Tail(t), table) \o table[Head(t)]

RECURSIVE EncodeBits(_, _)
\* "".join(code_table[ch] for ch in text)
EncodeBits(t, table) ==
    IF t = <<>> THEN <<>> ELSE table[Head(t)] \o EncodeBits(Tail(t), table)

\* round(a / b, d) for b > 0, as the integer a / b scaled by 10^d is rounded:
\* to the nearest integer, a tie to the even one
RoundDiv(a, b) ==
    LET q == a \div b
        r == a - q * b
    IN  IF 2 * r < b THEN q
        ELSE IF 2 * r > b THEN q + 1
        ELSE IF q % 2 = 0 THEN q ELSE q + 1

\* the empty case with the ratio left at 0 instead of 1.0
EmptyResultZeroRatio == [encoded_bits |-> <<>>, code_table |-> <<>>,
                         original_size_bits |-> 0, compressed_size_bits |-> 0,
                         compression_ratio |-> 0, space_saved_pct |-> 0]

\* the HuffmanResult of the empty text; ratio in thousandths, saved in
\* hundredths of a percent
EmptyResult == [encoded_bits |-> <<>>, code_table |-> <<>>,
                original_size_bits |-> 0, compressed_size_bits |-> 0,
                compression_ratio |-> 1000, space_saved_pct |-> 0]

HuffmanResult(t, table) ==
    LET bits == EncodeBits(t, table)
        original_bits == Len(t) * 8
        compressed_bits == Len(bits)
    IN  [encoded_bits |-> bits, code_table |-> table,
         original_size_bits |-> original_bits,
         compressed_size_bits |-> compressed_bits,
         compression_ratio |->
            IF compressed_bits /= 0
            THEN RoundDiv(1000 * original_bits, compressed_bits) ELSE 1000,
         space_saved_pct |->
            IF original_bits /= 0
            THEN RoundDiv(10000 * (original_bits - compressed_bits), original_bits)
            ELSE 0]

\* huffman_encode: `if not text: return HuffmanResult(...)`
HEncodeEmpty ==
    /\ hpc = "start"
    /\ htext = <<>>
    /\ result' = EmptyResult
    /\ hpc' = "encoded"
    /\ UNCHANGED <<htext, heap, dec_bits, dec_table, pos, buffer, decoded_chars,
                   outcome>>

\* _build_tree: one leaf per distinct character, heapified
HBuildStart ==
    /\ hpc = "start"
    /\ htext /= <<>>
    /\ heap' = {Leaf(Counter(htext)[ch], ch) : ch \in DOMAIN Counter(htext)}
    /\ hpc' = "build"
    /\ UNCHANGED <<htext, result, dec_bits, dec_table, pos, buffer, decoded_chars,
                   outcome>>

\* _build_tree: one turn of `while len(heap) > 1`
HMerge ==
    /\ hpc = "build"
    /\ Cardinality(heap) > 1
    /\ \E l \in heap :
          /\ IsMin(l, heap)
          /\ \E r \in heap \ {l} :
                /\ IsMin(r, heap \ {l})
                /\ heap' = (heap \ {l, r}) \cup {Merged(l, r)}
    /\ UNCHANGED <<htext, hpc, result, dec_bits, dec_table, pos, buffer,
                   decoded_chars, outcome>>

\* the root is left: _build_codes, the bit string and the statistics
HEncodeReturn ==
    /\ hpc = "build"
    /\ Cardinality(heap) = 1
    /\ LET tree == CHOOSE root \in heap : TRUE
       IN  result' = HuffmanResult(htext, BuildCodes(tree, <<>>))
    /\ hpc' = "encoded"
    /\ UNCHANGED <<htext, heap, dec_bits, dec_table, pos, buffer, decoded_chars,
                   outcome>>

BitSeqs(k) == UNION {[1..m -> {"0", "1"}] : m \in 0..k}

\* the bit sequences handed to huffman_decode: the run's own, or any other
DecodeInputs == {result.encoded_bits} \cup BitSeqs(MaxBits)

\* huffman_decode: `if not encoded_bits: return ""`
HDecodeEmpty ==
    /\ hpc = "encoded"
    /\ dec_bits' = <<>>
    /\ dec_table' = result.code_table
    /\ outcome' = [kind |-> "ok", text |-> <<>>]
    /\ hpc' = "decoded"
    /\ UNCHANGED <<htext, heap, result, pos, buffer, decoded_chars>>

HDecodeStart ==
    /\ hpc = "encoded"
    /\ \E bits \in DecodeInputs \ {<<>>} : dec_bits' = bits
    /\ dec_table' = result.code_table
    /\ pos' = 0
    /\ buffer' = <<>>
    /\ decoded_chars' = <<>>
    /\ hpc' = "scan"
    /\ UNCHANGED <<htext, heap, result, outcome>>

\* inverse = {bits: ch for ch, bits in code_table.items()}
Inverse(table) ==
    [bits \in {table[ch] : ch \in DOMAIN table} |->
        CHOOSE ch \in DOMAIN table : table[ch] = bits]

\* one turn of `for bit in encoded_bits`
HScan ==
    /\ hpc = "scan"
    /\ pos < Len(dec_bits)
    /\ LET buf == Append(buffer, dec_bits[pos + 1])
           inverse == Inverse(dec_table)
       IN  IF buf \in DOMAIN inverse
           THEN /\ decoded_chars' = Append(decoded_chars, inverse[buf])
                /\ buffer' = <<>>
           ELSE /\ decoded_chars' = decoded_chars
                /\ buffer' = buf
    /\ pos' = pos + 1
    /\ UNCHANGED <<htext, hpc, heap, result, dec_bits, dec_table, outcome>>

\* return "".join(decoded_chars)
HDecodeReturn ==
    /\ hpc = "scan"
    /\ pos = Len(dec_bits)
    /\ outcome' = [kind |-> "ok", text |-> decoded_chars]
    /\ hpc' = "decoded"
    /\ UNCHANGED <<htext, heap, result, dec_bits, dec_table, pos, buffer,
                   decoded_chars>>

\* Inputs of the Huffman coder: texts of up to MaxLen characters
HAlphabet == {"a", "b", STX, ETX}

HTexts == UNION {[1..k -> HAlphabet] : k \in 0..MaxLen}

LIdle ==
    /\ text = <<>>
    /\ pc = "idle"
    /\ body = <<>>
    /\ found = <<>>
    /\ pruned = <<>>
    /\ candidates = <<>>
    /\ n = 0
    /\ decode_table = <<>>
    /\ file = NoFile
    /\ dbody = <<>>
    /\ sorted_keys = <<>>
    /\ replayed = <<>>
    /\ written = <<>>

HInit ==
    /\ htext \in HTexts
    /\ hpc = "start"
    /\ heap = {}
    /\ result = <<>>
    /\ dec_bits = <<>>
    /\ dec_table = <<>>
    /\ pos = 0
    /\ buffer = <<>>
    /\ decoded_chars = <<>>
    /\ outcome = <<>>
    /\ LIdle

HNext ==
    \/ (HEncodeEmpty /\ UNCHANGED lvars)
    \/ (HBuildStart /\ UNCHANGED lvars)
    \/ (HMerge /\ UNCHANGED lvars)
    \/ (HEncodeReturn /\ UNCHANGED lvars)
    \/ (HDecodeEmpty /\ UNCHANGED lvars)
    \/ (HDecodeStart /\ UNCHANGED lvars)
    \/ (HScan /\ UNCHANGED lvars)
    \/ (HDecodeReturn /\ UNCHANGED lvars)

HuffSpec == HInit /\ [][HNext]_vars

----------------------------------------------------------------------------
Next ==
    \/ (EncodeEscape /\ UNCHANGED hvars)
    \/ (EncodeFind /\ UNCHANGED hvars)
    \/ (LoopSkip /\ UNCHANGED hvars)
    \/ (LoopSubstitute /\ UNCHANGED hvars)
    \/ (EncodeReturn /\ UNCHANGED hvars)
    \/ (DecodeStart /\ UNCHANGED hvars)
    \/ (DecodeReplay /\ UNCHANGED hvars)
    \/ (DecodeUnescape /\ UNCHANGED hvars)

Spec == Init /\ [][Next]_vars

\* Inputs of the lossless codec made of whole lines: up to MaxBlocks blocks,
\* each a run of two 20-character lines, one such line, a short line, a line
\* of 34 start control characters, or a line opening with the characters
\* U+0002 0001 U+0003
Run == LineOf("a") \o LineOf("b")

StxLine == [i \in 1..35 |-> IF i = 35 THEN LF ELSE STX]

LookalikeLine == <<STX, "0", "0", "0", "1", ETX>> \o LineOf("a")

Blocks == {Run, LineOf("b"), <<"c", LF>>, StxLine, LookalikeLine}

BlockTexts == UNION {{Join(bs) : bs \in [1..k -> Blocks]} : k \in 0..MaxBlocks}

BlockInit ==
    /\ text \in BlockTexts
    /\ pc = "start"
    /\ body = <<>>
    /\ found = <<>>
    /\ pruned = <<>>
    /\ candidates = <<>>
    /\ n = 0
    /\ decode_table = <<>>
    /\ file = NoFile
    /\ dbody = <<>>
    /\ sorted_keys = <<>>
    /\ replayed = <<>>
    /\ written = <<>>
    /\ HIdle

BlockSpec == BlockInit /\ [][Next]_vars

----------------------------------------------------------------------------
\* Properties

Encoded == pc \in {"encoded", "decoding", "done"}

HEncoded == hpc \in {"encoded", "scan", "decoded"}

\* C1: lossless_decode(lossless_encode(T)) returns exactly T for every text T
RoundTrip == pc = "done" => dbody = text

\* C2: every occurrence in the returned body of the placeholder of a key of
\* the decode table was written by the substitution of that key: the body
\* holds exactly as many as that turn wrote, none spelled by the input
NoPlaceholderConfusion ==
    Encoded =>
        \A key \in DOMAIN decode_table :
            StrCount(body, <<STX>> \o key \o <<ETX>>) = written[key]

IsControl(c) == c \in {STX, ETX}

\* position i of b lies inside a three-symbol escape sequence: a control
\* symbol, a non-control character, a control symbol
InEscapeSequence(b, i) ==
    \E j \in {i - 2, i} :
        /\ j >= 1
        /\ j + 2 <= Len(b)
        /\ b[j] = STX
        /\ ~IsControl(b[j + 1])
        /\ b[j + 2] = STX

\* C3: the text handed to pattern search holds neither control symbol
\* (U+0002, U+0003) outside an escape sequence, on every input
EscapeCoversBothControls ==
    pc = "escaped" =>
        \A i \in 1..Len(body) : IsControl(body[i]) => InEscapeSequence(body, i)

\* C4: huffman_decode of the bits and table of huffman_encode(T) returns T
HuffmanRoundTrip ==
    (hpc = "decoded" /\ dec_bits = result.encoded_bits)
        => outcome = [kind |-> "ok", text |-> htext]

HuffmanRoundTripWitness ==
    /\ hpc = "decoded"
    /\ dec_bits = result.encoded_bits
    /\ outcome.text = htext
    /\ {STX, ETX} \subseteq Range(htext)
    /\ Cardinality(Range(htext)) >= 3

IsPrefix(a, b) == Len(a) <= Len(b) /\ SubSeq(b, 1, Len(a)) = a

\* C5: for a text of two or more distinct characters no codeword is empty
\* and none is a prefix of (or equal to) the codeword of another character
PrefixFree ==
    (HEncoded /\ Cardinality(Range(htext)) >= 2) =>
        /\ \A ch \in DOMAIN result.code_table : result.code_table[ch] /= <<>>
        /\ \A c1, c2 \in DOMAIN result.code_table :
              c1 /= c2 => ~IsPrefix(result.code_table[c1], result.code_table[c2])

PrefixFreeWitness ==
    /\ hpc = "encoded"
    /\ Cardinality(Range(htext)) >= 3
    /\ \E c1, c2 \in DOMAIN result.code_table :
          Len(result.code_table[c1]) < Len(result.code_table[c2])

\* C6: huffman_decode never returns truncated output: bits left in the
\* buffer at the end of the scan are reported as the failure UnknownCode
NoTruncatedDecode ==
    (hpc = "decoded" /\ buffer /= <<>>) => outcome.kind = "UnknownCode"

RECURSIVE SavedChars(_)
\* the characters the substitutions of the keys removed from the body, a
\* placeholder taking 6
SavedChars(keys) ==
    IF keys = {} THEN 0
    ELSE LET k == CHOOSE x \in keys : TRUE
         IN  written[k] * (Len(decode_table[k]) - 6) + SavedChars(keys \ {k})

DescendingReplay ==
    [][pc = "decoding" =>
        /\ replayed' /= replayed =>
              LET key == replayed'[Len(replayed')]
              IN  /\ replayed' = Append(replayed, key)
                  /\ key \in DOMAIN decode_table
                  /\ \A i \in 1..Len(replayed) : ParseInt(replayed[i]) > ParseInt(key)
                  /\ dbody' = StrReplace(dbody, <<STX>> \o key \o <<ETX>>,
                                         decode_table[key])
                  /\ pc' = "decoding"
        /\ replayed' = replayed =>
              /\ Range(replayed) = DOMAIN decode_table
              /\ dbody' = StrReplace(dbody, ESCAPE, <<STX>>)
              /\ pc' = "done"]_vars

DescendingReplayWitness ==
    /\ pc = "done"
    /\ Len(replayed) >= 2
    /\ dbody = text

\* a window of 1, 2 or 3 consecutive lines of t, at least 20 characters
\* long, that occurs at least twice
RepeatedWindow(t) ==
    LET lines == Splitlines(t)
    IN  \E w \in 1..3 :
            \E i, j \in 1..(Len(lines) - w + 1) :
                /\ i /= j
                /\ Len(Join(SubSeq(lines, i, i + w - 1))) >= 20
                /\ Join(SubSeq(lines, i, i + w - 1)) = Join(SubSeq(lines, j, j + w - 1))

\* C9: without a repeated window the decode table is empty, the body is
\* the escaped input and encoded_size >= original_size, equal (ratio 1.0)
\* when the input holds no control symbol
NoPatternCase ==
    (Encoded /\ ~RepeatedWindow(EscapeStep(text))) =>
        /\ decode_table = <<>>
        /\ file.patterns_count = 0
        /\ body = EscapeStep(text)
        /\ file.encoded_size >= file.original_size
        /\ (\A i \in 1..Len(text) : ~IsControl(text[i])) =>
              /\ file.encoded_size = file.original_size
              /\ file.ratio[1] = file.ratio[2]

NoPatternCaseWitness ==
    /\ pc = "encoded"
    /\ ~RepeatedWindow(EscapeStep(text))
    /\ \E i \in 1..Len(text) : text[i] = STX
    /\ Len(Splitlines(text)) >= 2
    /\ \E i \in 1..Len(Splitlines(text)) : Len(Splitlines(text)[i]) >= 20
    /\ file.encoded_size > file.original_size

\* C10: n >= 1 copies of one character encode to the table {character: "0"}
\* and to exactly n "0" bits
SingleSymbol ==
    (HEncoded /\ htext /= <<>> /\ Cardinality(Range(htext)) = 1) =>
        /\ result.code_table = (htext[1] :> <<"0">>)
        /\ result.encoded_bits = [i \in 1..Len(htext) |-> "0"]

SingleSymbolWitness ==
    /\ hpc = "encoded"
    /\ Len(htext) >= 3
    /\ Cardinality(Range(htext)) = 1
    /\ Len(result.encoded_bits) = Len(htext)

\* C11: huffman_encode of the empty text returns the empty bit sequence, the
\* empty code table, both bit counts 0, ratio 1.0 (1000 thousandths) and 0
\* percent saved; huffman_decode of the empty bit sequence returns the empty
\* text whatever the code table is.
EmptyCase ==
    /\ (HEncoded /\ htext = <<>>) =>
          /\ result.encoded_bits = <<>>
          /\ DOMAIN result.code_table = {}
          /\ result.original_size_bits = 0
          /\ result.compressed_size_bits = 0
          /\ result.compression_ratio = 1000
          /\ result.space_saved_pct = 0
    /\ (hpc = "decoded" /\ dec_bits = <<>>) => outcome = [kind |-> "ok", text |-> <<>>]

\* the empty text has been encoded and its empty bit sequence decoded
EmptyCaseWitness ==
    /\ hpc = "decoded"
    /\ htext = <<>>
    /\ dec_bits = <<>>
    /\ result.encoded_bits = <<>>

\* The windows that _find_patterns looks at, stated on the lines themselves:
\* the window of w lines at line i, and how often a text occurs as a window
WindowAt(lines, i, w) == Join(SubSeq(lines, i, i + w - 1))

WindowSlots(lines) ==
    {s \in (1..Len(lines)) \X (1..3) : s[1] + s[2] - 1 <= Len(lines)}

WindowCount(lines, t) ==
    Cardinality({s \in WindowSlots(lines) : WindowAt(lines, s[1], s[2]) = t})

\* the window texts of at least 20 characters that occur at least twice
RepeatedWindows(lines) ==
    {WindowAt(lines, s[1], s[2]) :
        s \in {x \in WindowSlots(lines) :
                  /\ Len(WindowAt(lines, x[1], x[2])) >= 20
                  /\ WindowCount(lines, WindowAt(lines, x[1], x[2])) >= 2}}

\* The lines (as the encoder sees them, escaped) hold the run P Q exactly k
\* times, P and Q occur nowhere else, and nothing else of 20 characters or
\* more is shared between windows
SharedRun(lines, P, Q, k) ==
    LET occ == {i \in 1..(Len(lines) - 1) : lines[i] = P /\ lines[i + 1] = Q}
    IN  /\ P /= Q
        /\ Len(P) >= 20
        /\ Len(Q) >= 20
        /\ Cardinality(occ) = k
        /\ k >= 2
        /\ \A i \in 1..Len(lines) :
              /\ lines[i] = P => i \in occ
              /\ lines[i] = Q => (i - 1) \in occ
        /\ RepeatedWindows(lines) = {P, Q, P \o Q}

\* what the encoder does with such a text, sizes apart
SharedRunEncoded(P, Q, k) ==
    /\ found[1] = [pat |-> P \o Q, cnt |-> k]
    /\ {found[i].pat : i \in 1..Len(found)} = {P, Q, P \o Q}
    /\ pruned = <<[pat |-> P \o Q, cnt |-> k]>>
    /\ DOMAIN decode_table = {<<"0", "0", "0", "0">>}
    /\ decode_table[<<"0", "0", "0", "0">>] = P \o Q
    /\ StrCount(EscapeStep(text), P \o Q) = k
    /\ body = StrReplace(EscapeStep(text), P \o Q, <<STX, "0", "0", "0", "0", ETX>>)
    /\ StrCount(body, P \o Q) = 0

TableCoversText ==
    (HEncoded /\ htext /= <<>>) =>
        /\ DOMAIN result.code_table = Range(htext)
        /\ Cardinality(DOMAIN result.code_table) = Cardinality(Range(htext))
        /\ \A i \in 1..Len(htext) :
              /\ htext[i] \in DOMAIN result.code_table
              /\ result.code_table[htext[i]] \in BitSeqs(MaxLen) \ {<<>>}

\* a text of three distinct characters, one of them repeated, is encoded
TableCoversTextWitness ==
    /\ hpc = "encoded"
    /\ Cardinality(Range(htext)) = 3
    /\ Len(htext) > 3
    /\ Cardinality(DOMAIN result.code_table) = 3

\* C14: a turn of the substitution loop takes the candidate at position n.
\* With fewer than 2 non-overlapping occurrences in the current body, or a
\* pattern of at most 6 characters, it leaves body and decode table as they
\* are; otherwise it adds exactly the entry n -> pattern, replaces every
\* occurrence by the placeholder of n, and changes nothing else.
LoopTurn ==
    [][(pc = "loop" /\ n' /= n) =>
        LET pat == candidates[n + 1].pat
        IN  /\ n' = n + 1
            /\ n < Len(candidates)
            /\ text' = text
            /\ candidates' = candidates
            /\ file' = file
            /\ pc' = "loop"
            /\ IF StrCount(body, pat) < 2 \/ Len(pat) <= 6
               THEN /\ body' = body
                    /\ decode_table' = decode_table
               ELSE \E key \in DOMAIN decode_table' :
                       /\ key \notin DOMAIN decode_table
                       /\ DOMAIN decode_table' = DOMAIN decode_table \cup {key}
                       /\ Len(key) = 4
                       /\ ParseInt(key) = n
                       /\ decode_table'[key] = pat
                       /\ \A k \in DOMAIN decode_table :
                             decode_table'[k] = decode_table[k]
                       /\ body' = StrReplace(body, pat, <<STX>> \o key \o <<ETX>>)]_vars

\* the first candidate was skipped and the second one substituted as 0001
LoopTurnWitness ==
    /\ pc = "encoded"
    /\ n = 2
    /\ DOMAIN decode_table = {<<"0", "0", "0", "1">>}
    /\ decode_table[<<"0", "0", "0", "1">>] = candidates[2].pat
    /\ StrCount(body, <<STX, "0", "0", "0", "1", ETX>>) >= 2

RECURSIVE ReplayKeys(_, _, _)
\* the replay loop of _decode_body run over the keys in the given order
ReplayKeys(b, keys, table) ==
    IF keys = <<>> THEN b
    ELSE ReplayKeys(StrReplace(b, Placeholder(Head(keys)), table[Head(keys)]),
                    Tail(keys), table)

\* what _decode_body would return if it replayed the keys in ascending order
AscendingDecode(b, table) ==
    UnescapeStep(ReplayKeys(b, SortKeysAsc(DOMAIN table), table))

\* an entry whose pattern spells the placeholder of a later entry
HoldsLaterPlaceholder(table) ==
    \E i, j \in DOMAIN table :
        /\ ParseInt(i) < ParseInt(j)
        /\ Contains(<<STX>> \o j \o <<ETX>>, table[i])

\* C15: decoding replays every key once, in descending index order (the
\* inverse of the creation order); an ascending replay of the same body and
\* table gives another text only by re-expanding a placeholder into a
\* pattern that holds the placeholder of a later entry.  The witness is a
\* text T that the descending replay returns and the ascending one does not.
ReplayOrderMatters ==
    pc = "done" =>
        /\ Range(replayed) = DOMAIN decode_table
        /\ Len(replayed) = Cardinality(DOMAIN decode_table)
        /\ \A i, j \in 1..Len(replayed) :
              i < j => ParseInt(replayed[i]) > ParseInt(replayed[j])
        /\ AscendingDecode(body, decode_table) /= dbody =>
              HoldsLaterPlaceholder(decode_table)

ReplayOrderMattersWitness ==
    /\ pc = "done"
    /\ dbody = text
    /\ AscendingDecode(body, decode_table) /= text
    /\ HoldsLaterPlaceholder(decode_table)
    /\ \A key \in DOMAIN decode_table : StrCount(body, Placeholder(key)) = written[key]

\* C16: entries are created longest pattern first: for any two keys i < j of
\* the decode table the pattern under i is at least as long as the one under j
LongestFirst ==
    pc \in {"loop", "encoded", "decoding", "done"} =>
        \A i, j \in DOMAIN decode_table :
            ParseInt(i) < ParseInt(j) => Len(decode_table[i]) >= Len(decode_table[j])

\* a returned table with two entries, the first one strictly longer
LongestFirstWitness ==
    /\ pc = "encoded"
    /\ \E i, j \in DOMAIN decode_table :
          /\ ParseInt(i) < ParseInt(j)
          /\ Len(decode_table[i]) > Len(decode_table[j])

\* the savings (count - 1) * max(0, length - 6) of a candidate
SavingsOf(item) ==
    (item.cnt - 1) * (IF Len(item.pat) > 6 THEN Len(item.pat) - 6 ELSE 0)

IsSubstring(a, b) ==
    \E i \in 0..(Len(b) - Len(a)) : SubSeq(b, i + 1, i + Len(a)) = a

\* C18: _remove_subsumed keeps, in their order, exactly the candidates whose
\* text is in no earlier candidate of its input; so no survivor lies in an
\* earlier survivor and every discarded one lies in an earlier survivor
PrunedExactly ==
    pc \in {"loop", "encoded", "decoding", "done"} =>
        LET keep == {i \in 1..Len(found) :
                        \A j \in 1..(i - 1) : ~IsSubstring(found[i].pat, found[j].pat)}
            nth(m) == CHOOSE i \in keep : Cardinality({j \in keep : j <= i}) = m
        IN  /\ Len(pruned) = Cardinality(keep)
            /\ \A m \in 1..Len(pruned) : pruned[m] = found[nth(m)]
            /\ \A a, b \in 1..Len(pruned) :
                  a < b => ~IsSubstring(pruned[b].pat, pruned[a].pat)
            /\ \A i \in (1..Len(found)) \ keep :
                  \E j \in keep : j < i /\ IsSubstring(found[i].pat, found[j].pat)

\* one candidate was discarded, and a survivor lies inside a later survivor
PrunedExactlyWitness ==
    /\ pc = "loop"
    /\ Len(found) >= 3
    /\ Len(pruned) = 2
    /\ IsSubstring(pruned[1].pat, pruned[2].pat)

\* C19: the escape step alone is undone by the unescape step: replacing
\* every U+0002 of the text by U+0002 'e' U+0002 and then every U+0002 'e'
\* U+0002 (leftmost, non-overlapping) by U+0002 gives the text back
EscapeInvertible ==
    pc = "escaped" =>
        /\ Len(body) = Len(text) + 2 * Cardinality({i \in 1..Len(text) : text[i] = STX})
        /\ StrReplace(body, <<STX, "e", STX>>, <<STX>>) = text

\* a text that holds U+0002 'e' U+0002 itself, two U+0002 in a row and a
\* U+0002 followed by 'e'
EscapeInvertibleWitness ==
    /\ pc = "escaped"
    /\ \E i \in 1..(Len(text) - 2) : SubSeq(text, i, i + 2) = <<STX, "e", STX>>
    /\ \E i \in 1..(Len(text) - 1) : SubSeq(text, i, i + 1) = <<STX, STX>>
    /\ \E i \in 1..(Len(text) - 1) : SubSeq(text, i, i + 1) = <<STX, "e">>
    /\ body /= text

\* C20: in the substitution loop the body never grows: a turn that records
\* an entry shortens it by at least 2 * (len(pattern) - 6) >= 28 characters,
\* a skipped turn leaves it as it is; so the final body is never longer than
\* the escaped input, and shorter exactly when the decode table is non-empty
BodyNeverGrows ==
    /\ [][(pc = "loop" /\ n' /= n) =>
            LET pat == candidates[n + 1].pat
            IN  /\ Len(body') <= Len(body)
                /\ IF DOMAIN decode_table' /= DOMAIN decode_table
                   THEN /\ Len(body) - Len(body') >= 2 * (Len(pat) - 6)
                        /\ 2 * (Len(pat) - 6) >= 28
                   ELSE body' = body]_vars
    /\ [](Encoded =>
            /\ Len(body) <= Len(EscapeStep(text))
            /\ Len(body) < Len(EscapeStep(text)) <=> DOMAIN decode_table /= {})

\* a run of the loop with a skipped turn and a recording turn, ended
BodyNeverGrowsWitness ==
    /\ pc = "encoded"
    /\ n > Cardinality(DOMAIN decode_table)
    /\ DOMAIN decode_table /= {}
    /\ Len(EscapeStep(text)) - Len(body) >= 28

\* how often the character ch occurs in the text t
Occurrences(t, ch) == Cardinality({i \in 1..Len(t) : t[i] = ch})

\* C21: in every returned code table a character that occurs strictly more
\* often than another never has the longer codeword, whichever of the
\* equal-weight nodes the heap hands out first
FrequentNotLonger ==
    (HEncoded /\ htext /= <<>>) =>
        \A a, b \in DOMAIN result.code_table :
            Occurrences(htext, a) > Occurrences(htext, b) =>
                Len(result.code_table[a]) <= Len(result.code_table[b])

\* a table in which a more frequent character has the strictly shorter
\* codeword, and two equally frequent characters have codewords of
\* different lengths (a tie of the heap decided one way)
FrequentNotLongerWitness ==
    /\ hpc = "encoded"
    /\ \E a, b \in DOMAIN result.code_table :
          /\ Occurrences(htext, a) > Occurrences(htext, b)
          /\ Len(result.code_table[a]) < Len(result.code_table[b])
    /\ \E c, d \in DOMAIN result.code_table :
          /\ Occurrences(htext, c) = Occurrences(htext, d)
          /\ Len(result.code_table[c]) /= Len(result.code_table[d])

====
